---- MODULE Spec2Model ----
(***************************************************************************)
(* A model of ninat's NAT test (src/src/lib.rs): the probe round `test`    *)
(* (sends, then the receive loop) and the two-round classifier `nat_test`. *)
(* The transport (trait RW) is the environment: every send_to either       *)
(* succeeds or fails with some io::ErrorKind, every recv_from returns a    *)
(* datagram (size, source address, buffer) or fails with some kind.        *)
(***************************************************************************)
EXTENDS Integers, Sequences, FiniteSets, TLC

(* ----------------------------- constants ------------------------------ *)

PORT_1 == 33334
PORT_2 == 10025
PORT_3 == 50920
ONE_TIME_SEND == 5
U16_MAX == 65535

PAYLOAD_1 == <<0, 0, 0, 0, 0, 0, 0, 0, 0, 0, 0, 0, 0, 0, 0, 0>>
PAYLOAD_2 == <<0, 0, 0, 101, 0, 0, 0, 0, 0, 0, 0, 0, 0, 0, 0, 0>>
PAYLOAD_3 == <<0, 0, 0, 102, 0, 0, 0, 0, 0, 0, 0, 0, 0, 0, 0, 0>>
PAYLOAD_4 == <<0, 0, 0, 103, 0, 0, 0, 0, 0, 0, 0, 0, 0, 0, 0, 0>>

(* ------------------------------- bounds ------------------------------- *)

\* Number of unrelated hosts that send datagrams to the client.
MaxStrangers == 1

\* Ports the servers may report as the client's external port.
Ports == {5, 40001, 40002, 40011, 40012, 40039, 65530}

\* External IPv4 addresses the servers may report.
ObservedIPs == {<<203, 0, 113, 5>>, <<198, 51, 100, 7>>}

\* Addresses nat_test may be given for server1 and for server2 (server2 may
\* be the same host as server1), and the unrelated hosts.
Server1IPs == {<<192, 0, 2, 1>>}
Server2IPs == {<<192, 0, 2, 1>>, <<192, 0, 2, 2>>}
StrangerIPs == {<<192, 0, 2, 8 + i>> : i \in 1..MaxStrangers}

\* io::ErrorKind values the transport may fail with.
ErrorKinds == {"TimedOut", "ConnectionRefused"}

(* ------------------------------ data types ---------------------------- *)

SocketAddrV4(ip, port) == [ip |-> ip, port |-> port]

\* Option<SocketAddrV4>: None and Some(addr).
None == [some |-> FALSE, ip |-> <<0, 0, 0, 0>>, port |-> 0]
Some(addr) == [some |-> TRUE, ip |-> addr.ip, port |-> addr.port]

\* Option<Ipv4Addr>.
NoIp == [some |-> FALSE, ip |-> <<0, 0, 0, 0>>]
SomeIp(ip) == [some |-> TRUE, ip |-> ip]

\* io::Result<(SocketAddrV4, SocketAddrV4, bool)>, and "no call returned yet".
NoRet == [st |-> "none", remote1 |-> None, remote2 |-> None, is_a |-> FALSE, kind |-> "-"]
RetOk(r1, r2, a) == [st |-> "ok", remote1 |-> r1, remote2 |-> r2, is_a |-> a, kind |-> "-"]
RetErr(kind) == [st |-> "err", remote1 |-> None, remote2 |-> None, is_a |-> FALSE, kind |-> kind]
\* test did not return: Option::unwrap panicked.
RetPanic == [st |-> "panic", remote1 |-> None, remote2 |-> None, is_a |-> FALSE, kind |-> "-"]

\* io::Result<(Option<Ipv4Addr>, NatType)>, and "nat_test still running".
NoResult == [st |-> "none", ip |-> NoIp, nat |-> "-", kind |-> "-"]
ResultOk(ip, nat) == [st |-> "ok", ip |-> ip, nat |-> nat, kind |-> "-"]
ResultErr(kind) == [st |-> "err", ip |-> NoIp, nat |-> "-", kind |-> kind]
\* nat_test did not return: the panic of test unwinds through it.
ResultPanic == [st |-> "panic", ip |-> NoIp, nat |-> "-", kind |-> "-"]

(* ------------------------------ wire codec ---------------------------- *)

\* u16::from_be_bytes([g, h])
from_be_bytes(g, h) == g * 256 + h

\* impl From<[u8; 16]> for Response
Response_from(s) ==
    [payload   |-> <<s[1], s[2], s[3], s[4]>>,
     reserved  |-> <<s[5], s[6]>>,
     port      |-> from_be_bytes(s[7], s[8]),
     remote_ip |-> <<s[9], s[10], s[11], s[12]>>,
     local_ip  |-> <<s[13], s[14], s[15], s[16]>>]

is_payload_2(resp) == resp.payload[4] = 101
is_payload_3(resp) == resp.payload[4] = 102
is_payload_4(resp) == resp.payload[4] = 103
remote_addr(resp) == SocketAddrV4(resp.remote_ip, resp.port)

\* What a server puts on the wire: discriminator d, the observed port p in
\* network byte order, the observed address ip, and its own address.
ServerReply(d, p, ip, local) ==
    <<0, 0, 0, d, 0, 0, p \div 256, p % 256,
      ip[1], ip[2], ip[3], ip[4], local[1], local[2], local[3], local[4]>>

(* ------------------------ transport environment ----------------------- *)

\* Source addresses a datagram may come from.
ServerAddrs ==
    {SocketAddrV4(ip, PORT_2) : ip \in Server1IPs \cup Server2IPs}
SrcAddrs ==
    {SocketAddrV4(ip, port) :
        ip \in Server1IPs \cup Server2IPs \cup StrangerIPs, port \in {PORT_2, PORT_3}}

\* Datagrams recv_from may deliver: 16-byte replies from the servers' echo
\* port carrying every observed endpoint under the two echo discriminators,
\* 16-byte datagrams from every source under every discriminator, and
\* datagrams of another length.
Datagrams ==
    {[size |-> 16, addr |-> a, buf |-> ServerReply(d, p, ip, a.ip)] :
        a \in ServerAddrs, d \in {101, 103}, p \in Ports, ip \in ObservedIPs}
    \cup
    {[size |-> 16, addr |-> a, buf |-> ServerReply(d, 40001, <<203, 0, 113, 5>>, a.ip)] :
        a \in SrcAddrs, d \in {0, 101, 102, 103}}
    \cup
    {[size |-> n, addr |-> a, buf |-> ServerReply(d, 40001, <<203, 0, 113, 5>>, a.ip)] :
        n \in {15, 17}, a \in SrcAddrs, d \in {101, 102, 103}}

(* -------------------------------- state ------------------------------- *)

VARIABLES
    server1, server2,   \* arguments of nat_test
    pc,                 \* "send", "recv": inside test; "returned": test has
                        \* returned to nat_test; "done": nat_test has returned;
                        \* "reported": main has printed
    round,              \* 1: first call of test, 2: second call of test
    rw,                 \* the transport test was called with
    sent,               \* number of send_to calls that succeeded in this round
    remote1, remote2,   \* locals of test: Option<SocketAddrV4>
    is_a,               \* local of test
    ret,                \* value returned by the latest call of test
    exit,               \* how the latest call of test ended (history):
                        \* at "send_err", "break" or "recv_err", and the
                        \* kind of the transport error
    ip,                 \* locals of nat_test set after round 1
    port_a1, port_b1,
    first_remote1,      \* remote1 as returned by round 1 (history)
    result,             \* value returned by nat_test
    report,             \* what main prints
    last_send,          \* arguments of the latest send_to of this round (history)
    received,           \* recv_from was called in this round (history)
    last_echo,          \* endpoint in the latest echo reply of this round (history)
    last_xsrv,          \* endpoint in the latest cross-server reply (history)
    overwrote           \* a recorded endpoint was replaced by another (history)

vars == <<server1, server2, pc, round, rw, sent, remote1, remote2, is_a, ret, exit,
          ip, port_a1, port_b1, first_remote1, result, report,
          last_send, received, last_echo, last_xsrv, overwrote>>

\* The variables of nat_test and main, which test leaves alone.
outer == <<server1, server2, round, rw, ip, port_a1, port_b1, first_remote1,
           result, report>>

NoExit == [at |-> "-", kind |-> "-"]
NoSend == [buf |-> <<>>, addr |-> SocketAddrV4(<<0, 0, 0, 0>>, 0)]

addr_1_1 == SocketAddrV4(server1, PORT_1)
addr_1_2 == SocketAddrV4(server1, PORT_2)
addr_1_3 == SocketAddrV4(server1, PORT_3)
addr_2 == SocketAddrV4(server2, PORT_2)

\* The three replies a round waits for as section 4.3 of the specification
\* tells them apart (length, source address, discriminator byte), and the
\* endpoint a reply carries. Only the history variables use them: what test
\* does with a datagram is NewRemote1, NewIsA and NewRemote2.
EchoReply(d) == d.size = 16 /\ d.addr = addr_1_2 /\ d.buf[4] = 101
CrossPortReply(d) == d.size = 16 /\ d.addr = addr_1_3 /\ d.buf[4] = 102
CrossServerReply(d) == d.size = 16 /\ d.addr = addr_2 /\ d.buf[4] = 103
Carried(d) == Some(remote_addr(Response_from(d.buf)))

(* -------------------------------- test -------------------------------- *)

\* Variant of SendCall: the cross-port requests go out before the echo requests.
SendCall_CrossPortFirst(i) ==
    CASE i \div ONE_TIME_SEND = 0 -> [buf |-> PAYLOAD_1, addr |-> addr_1_1]
      [] i \div ONE_TIME_SEND = 1 -> [buf |-> PAYLOAD_3, addr |-> addr_1_2]
      [] i \div ONE_TIME_SEND = 2 -> [buf |-> PAYLOAD_2, addr |-> addr_1_2]
      [] OTHER                    -> [buf |-> PAYLOAD_4, addr |-> addr_2]

\* The i-th send_to of a round (i = 0..19): payload and destination.
SendCall(i) ==
    CASE i \div ONE_TIME_SEND = 0 -> [buf |-> PAYLOAD_1, addr |-> addr_1_1]
      [] i \div ONE_TIME_SEND = 1 -> [buf |-> PAYLOAD_2, addr |-> addr_1_2]
      [] i \div ONE_TIME_SEND = 2 -> [buf |-> PAYLOAD_3, addr |-> addr_1_2]
      [] OTHER                    -> [buf |-> PAYLOAD_4, addr |-> addr_2]

\* Variant of NewRemote1: the length of the datagram is not looked at.
NewRemote1_AnySize(d, r1) ==
    IF d.addr = addr_1_2 /\ is_payload_2(Response_from(d.buf))
    THEN Some(remote_addr(Response_from(d.buf)))
    ELSE r1

\* Variant of NewRemote1: the first endpoint recorded is kept.
NewRemote1_FirstWins(d, r1) ==
    IF d.size = 16 /\ d.addr = addr_1_2 /\ is_payload_2(Response_from(d.buf)) /\ ~r1.some
    THEN Some(remote_addr(Response_from(d.buf)))
    ELSE r1

\* remote1 after the datagram d was received.
NewRemote1(d, r1) ==
    IF d.size = 16 /\ d.addr = addr_1_2 /\ is_payload_2(Response_from(d.buf))
    THEN Some(remote_addr(Response_from(d.buf)))
    ELSE r1

\* is_a after the datagram d was received.
NewIsA(d, a) ==
    IF d.size = 16 /\ d.addr # addr_1_2 /\ d.addr = addr_1_3
       /\ is_payload_3(Response_from(d.buf))
    THEN TRUE
    ELSE a

\* remote2 after the datagram d was received.
NewRemote2(d, r2) ==
    IF d.size = 16 /\ d.addr # addr_1_2 /\ d.addr # addr_1_3 /\ d.addr = addr_2
       /\ is_payload_4(Response_from(d.buf))
    THEN Some(remote_addr(Response_from(d.buf)))
    ELSE r2

\* Variant of BreakOnDatagram: the loop is never left on a datagram.
BreakOnDatagram_Never(d, r1, r2, a) == FALSE

\* Variant of BreakOnDatagram: the test is made only in the cross-port arm.
BreakOnDatagram_InCrossPortArm(d, r1, r2, a) ==
    d.size = 16 /\ d.addr = addr_1_3 /\ r1.some /\ r2.some /\ a

\* The break of the Ok arm: taken only for a 16-byte datagram.
BreakOnDatagram(d, r1, r2, a) == d.size = 16 /\ r1.some /\ r2.some /\ a

\* Ok((remote1.unwrap(), remote2.unwrap(), is_a)): unwrap panics on None.
TestReturn(r1, r2, a) ==
    IF r1.some /\ r2.some
    THEN RetOk(SocketAddrV4(r1.ip, r1.port), SocketAddrV4(r2.ip, r2.port), a)
    ELSE RetPanic

\* Variant of RetOnError: the loop is left as soon as remote1 is known.
RetOnError_Remote1Only(kind, r1, r2, a) ==
    IF r1.some THEN TestReturn(r1, r2, a) ELSE RetErr(kind)

\* The Err arm: break when both endpoints are known, else return the error.
RetOnError(kind, r1, r2, a) ==
    IF r1.some /\ r2.some THEN TestReturn(r1, r2, a) ELSE RetErr(kind)

\* rw.send_to(..)? succeeded.
SendOk ==
    /\ pc = "send"
    /\ sent < 4 * ONE_TIME_SEND
    /\ last_send' = SendCall(sent)
    /\ sent' = sent + 1
    /\ pc' = IF sent + 1 = 4 * ONE_TIME_SEND THEN "recv" ELSE "send"
    /\ UNCHANGED <<remote1, remote2, is_a, ret, exit, received, last_echo,
                   last_xsrv, overwrote>>
    /\ UNCHANGED outer

\* rw.send_to(..)? failed: test returns the error.
SendErr(kind) ==
    /\ pc = "send"
    /\ sent < 4 * ONE_TIME_SEND
    /\ last_send' = SendCall(sent)
    /\ ret' = RetErr(kind)
    /\ exit' = [at |-> "send_err", kind |-> kind]
    /\ pc' = "returned"
    /\ UNCHANGED <<sent, remote1, remote2, is_a, received, last_echo, last_xsrv,
                   overwrote>>
    /\ UNCHANGED outer

\* rw.recv_from(..) returned Ok((size, addr)) with the buffer filled.
RecvOk(d) ==
    /\ pc = "recv"
    /\ remote1' = NewRemote1(d, remote1)
    /\ remote2' = NewRemote2(d, remote2)
    /\ is_a' = NewIsA(d, is_a)
    /\ IF BreakOnDatagram(d, remote1', remote2', is_a')
       THEN /\ ret' = TestReturn(remote1', remote2', is_a')
            /\ exit' = [at |-> "break", kind |-> "-"]
            /\ pc' = "returned"
       ELSE UNCHANGED <<ret, exit, pc>>
    /\ received' = TRUE
    /\ last_echo' = IF EchoReply(d) THEN Carried(d) ELSE last_echo
    /\ last_xsrv' = IF CrossServerReply(d) THEN Carried(d) ELSE last_xsrv
    /\ overwrote' = (\/ overwrote
                     \/ EchoReply(d) /\ last_echo.some /\ last_echo # Carried(d)
                     \/ CrossServerReply(d) /\ last_xsrv.some /\ last_xsrv # Carried(d))
    /\ UNCHANGED <<sent, last_send>>
    /\ UNCHANGED outer

\* Variant of RecvErr: unless both endpoints are known, the error is dropped
\* and recv_from is called again.
RecvErr_Retries(kind) ==
    /\ pc = "recv"
    /\ IF remote1.some /\ remote2.some
       THEN /\ ret' = TestReturn(remote1, remote2, is_a)
            /\ exit' = [at |-> "recv_err", kind |-> kind]
            /\ pc' = "returned"
       ELSE UNCHANGED <<ret, exit, pc>>
    /\ received' = TRUE
    /\ UNCHANGED <<sent, remote1, remote2, is_a, last_send, last_echo, last_xsrv,
                   overwrote>>
    /\ UNCHANGED outer

\* rw.recv_from(..) returned Err(e).
RecvErr(kind) ==
    /\ pc = "recv"
    /\ ret' = RetOnError(kind, remote1, remote2, is_a)
    /\ exit' = [at |-> "recv_err", kind |-> kind]
    /\ pc' = "returned"
    /\ received' = TRUE
    /\ UNCHANGED <<sent, remote1, remote2, is_a, last_send, last_echo, last_xsrv,
                   overwrote>>
    /\ UNCHANGED outer

(* ------------------------------ nat_test ------------------------------ *)

\* Variant of Round1Err: a timeout of round 1 is reported as an error.
Round1Err_Raises(kind) == ResultErr(kind)

\* The transport of the first call of test.
Round1Transport == "rw1"

\* Variant of Round2Transport: the first transport is passed again.
Round2Transport_Reused == "rw1"

\* The transport of the second call of test.
Round2Transport == "rw2"

\* Round 1 failed: Err(e) => match e.kind().
Round1Err(kind) ==
    IF kind = "TimedOut" THEN ResultOk(NoIp, "F") ELSE ResultErr(kind)

\* Variant of Round2Err: every failure of round 2 is classified F.
Round2Err_AllF(kind) == ResultOk(NoIp, "F")

\* Variant of Round2Err: the F result carries the address seen in round 1.
Round2Err_KeepsIp(kind) ==
    IF kind = "TimedOut" THEN ResultOk(SomeIp(ip), "F") ELSE ResultErr(kind)

\* Round 2 failed: Err(e) => match e.kind().
Round2Err(kind) ==
    IF kind = "TimedOut" THEN ResultOk(NoIp, "F") ELSE ResultErr(kind)

\* Variant of ObservedIp: the address reported by server2 is taken.
ObservedIp_Server2(r1, r2) == r2.ip

\* let ip = remote1.ip().clone();
ObservedIp(r1, r2) == r1.ip

\* Variant of NatCone: the two arms are swapped.
NatCone_Swapped(a) == IF a THEN "B" ELSE "A"

\* port_a1 == port_b1: match is_a.
NatCone(a) == IF a THEN "A" ELSE "B"

\* u16::checked_sub: None when the difference would be negative.
checked_sub(x, y) ==
    IF x - y >= 0 THEN [some |-> TRUE, v |-> x - y] ELSE [some |-> FALSE, v |-> 0]

\* Variant of PortDelta: the operands of the fallback are swapped.
PortDelta_SwappedFallback(port1, port2) ==
    IF checked_sub(port2, port1).some
    THEN checked_sub(port2, port1).v
    ELSE U16_MAX - (port2 - port1)

\* port2.checked_sub(port1).unwrap_or_else(|| u16::MAX - (port1 - port2)),
\* as the integer the expression denotes before it is stored in a u16.
PortDelta(port1, port2) ==
    IF checked_sub(port2, port1).some
    THEN checked_sub(port2, port1).v
    ELSE U16_MAX - (port1 - port2)

\* Variant of NatSymmetric: server2's delta is taken from server1's first port.
NatSymmetric_Crossed(a1, b1, a2, b2) ==
    IF PortDelta(a1, a2) = PortDelta(a1, b2) THEN "C" ELSE "D"

\* The comparison of the two deltas.
NatSymmetric(a1, b1, a2, b2) ==
    IF PortDelta(a1, a2) = PortDelta(b1, b2) THEN "C" ELSE "D"

\* nat_test after test(rw1, ..) returned.
AfterRound1 ==
    /\ pc = "returned"
    /\ round = 1
    /\ IF ret.st # "ok"
       THEN /\ result' = IF ret.st = "err" THEN Round1Err(ret.kind) ELSE ResultPanic
            /\ pc' = "done"
            /\ UNCHANGED <<round, rw, sent, remote1, remote2, is_a, ret, exit,
                           ip, port_a1, port_b1, first_remote1, last_send,
                           received, last_echo, last_xsrv, overwrote>>
       ELSE /\ ip' = ObservedIp(ret.remote1, ret.remote2)
            /\ first_remote1' = ret.remote1
            /\ port_a1' = ret.remote1.port
            /\ port_b1' = ret.remote2.port
            /\ IF ret.remote1.port = ret.remote2.port
               THEN /\ result' = ResultOk(SomeIp(ip'), NatCone(ret.is_a))
                    /\ pc' = "done"
                    /\ UNCHANGED <<round, rw, sent, remote1, remote2, is_a, ret,
                                   exit, last_send, received, last_echo,
                                   last_xsrv, overwrote>>
               ELSE \* test(rw2, server1, server2) is called
                    /\ round' = 2
                    /\ rw' = Round2Transport
                    /\ sent' = 0
                    /\ remote1' = None
                    /\ remote2' = None
                    /\ is_a' = FALSE
                    /\ ret' = NoRet
                    /\ exit' = NoExit
                    /\ last_send' = NoSend
                    /\ received' = FALSE
                    /\ last_echo' = None
                    /\ last_xsrv' = None
                    /\ overwrote' = FALSE
                    /\ pc' = "send"
                    /\ UNCHANGED result
    /\ UNCHANGED <<server1, server2, report>>

\* nat_test after test(rw2, ..) returned.
AfterRound2 ==
    /\ pc = "returned"
    /\ round = 2
    /\ result' = CASE ret.st = "err" -> Round2Err(ret.kind)
                   [] ret.st = "ok" ->
                        ResultOk(SomeIp(ip),
                                 NatSymmetric(port_a1, port_b1,
                                              ret.remote1.port, ret.remote2.port))
                   [] OTHER -> ResultPanic
    /\ pc' = "done"
    /\ UNCHANGED <<server1, server2, round, rw, sent, remote1, remote2, is_a, ret,
                   exit, ip, port_a1, port_b1, first_remote1, report, last_send,
                   received, last_echo, last_xsrv, overwrote>>

(* -------------------------- NatType and main -------------------------- *)

\* impl Display for NatType
Display_fmt(nat) ==
    CASE nat = "A" -> "A"
      [] nat = "B" -> "B"
      [] nat = "C" -> "C"
      [] nat = "D" -> "D"
      [] nat = "F" -> "F"

\* NatType::nintendo: self.to_string()
nintendo(nat) == Display_fmt(nat)

\* Variant of sony: class D has a label of its own.
sony_DIs4(nat) ==
    CASE nat = "A" -> "1"
      [] nat = "B" -> "2"
      [] nat = "C" -> "3"
      [] nat = "D" -> "4"
      [] nat = "F" -> "-"

\* NatType::sony
sony(nat) ==
    CASE nat = "A" -> "1"
      [] nat = "B" -> "2"
      [] nat = "C" -> "3"
      [] nat = "D" -> "3"
      [] nat = "F" -> "-"

\* NatType::microsoft
microsoft(nat) ==
    CASE nat = "A" -> "Open"
      [] nat = "B" -> "Moderate"
      [] nat = "C" -> "Strict"
      [] nat = "D" -> "Strict"
      [] nat = "F" -> "Unavailable"

NoReport ==
    [to |-> "-", ip |-> NoIp, nintendo |-> "-", sony |-> "-", microsoft |-> "-",
     kind |-> "-"]

\* main, after nat_test returned: the address and the three labels on
\* stdout, or the error on stderr. The locals of nat_test and test are gone.
Report ==
    /\ pc = "done"
    /\ result.st \in {"ok", "err"}
    /\ report' = IF result.st = "ok"
                 THEN [to |-> "stdout", ip |-> result.ip,
                       nintendo |-> nintendo(result.nat),
                       sony |-> sony(result.nat),
                       microsoft |-> microsoft(result.nat),
                       kind |-> "-"]
                 ELSE [to |-> "stderr", ip |-> NoIp, nintendo |-> "-",
                       sony |-> "-", microsoft |-> "-", kind |-> result.kind]
    /\ pc' = "reported"
    /\ sent' = 0
    /\ remote1' = None
    /\ remote2' = None
    /\ is_a' = FALSE
    /\ ret' = NoRet
    /\ exit' = NoExit
    /\ ip' = <<0, 0, 0, 0>>
    /\ port_a1' = 0
    /\ port_b1' = 0
    /\ first_remote1' = SocketAddrV4(<<0, 0, 0, 0>>, 0)
    /\ last_send' = NoSend
    /\ received' = FALSE
    /\ last_echo' = None
    /\ last_xsrv' = None
    /\ overwrote' = FALSE
    /\ UNCHANGED <<server1, server2, round, rw, result>>

(* ---------------------------- specification --------------------------- *)

Init ==
    /\ server1 \in Server1IPs
    /\ server2 \in Server2IPs
    /\ pc = "send"
    /\ round = 1
    /\ rw = Round1Transport
    /\ sent = 0
    /\ remote1 = None
    /\ remote2 = None
    /\ is_a = FALSE
    /\ ret = NoRet
    /\ exit = NoExit
    /\ ip = <<0, 0, 0, 0>>
    /\ port_a1 = 0
    /\ port_b1 = 0
    /\ first_remote1 = SocketAddrV4(<<0, 0, 0, 0>>, 0)
    /\ result = NoResult
    /\ report = NoReport
    /\ last_send = NoSend
    /\ received = FALSE
    /\ last_echo = None
    /\ last_xsrv = None
    /\ overwrote = FALSE

Next ==
    \/ SendOk
    \/ \E kind \in ErrorKinds : SendErr(kind)
    \/ \E d \in Datagrams : RecvOk(d)
    \/ \E kind \in ErrorKinds : RecvErr(kind)
    \/ AfterRound1
    \/ AfterRound2
    \/ Report

Spec == Init /\ [][Next]_vars

\* The program on a transport whose calls return: a send_to that was called
\* returns (a datagram send does not wait for the peer), and recv_from, called
\* again and again by the receive loop, returns an error at some call (the
\* read timeout main sets on the socket, when it is not zero). RecvErr is
\* enabled for as long as the loop runs, so weak fairness says exactly that.
\* Nothing is assumed about how many datagrams recv_from delivers before.
FairSpec ==
    /\ Spec
    /\ WF_vars(SendOk \/ \E kind \in ErrorKinds : SendErr(kind))
    /\ WF_vars(\E kind \in ErrorKinds : RecvErr(kind))

(* ------------------------------- claims ------------------------------- *)

BothKnown == remote1.some /\ remote2.some
Round1Timeout ==
    /\ round = 1
    /\ ret.st = "err"
    /\ ret.kind = "TimedOut"
    /\ ~BothKnown

\* C1: when round 1 ends with a TimedOut error while remote1 and remote2 are
\* not both known, the next step of nat_test is to return Ok((None, F)): no
\* error reaches the caller and round 2 is not started.
C1_Round1TimeoutIsF ==
    [][(pc = "returned" /\ Round1Timeout)
         => (pc' = "done" /\ round' = 1 /\ result' = ResultOk(NoIp, "F"))]_vars

\* Round 1 timed out in the receive loop with only remote1 known, and
\* nat_test has returned.
C1_Witness ==
    /\ pc = "done"
    /\ Round1Timeout
    /\ exit = [at |-> "recv_err", kind |-> "TimedOut"]
    /\ remote1.some
    /\ result = ResultOk(NoIp, "F")

\* C2: when round 1 completes with equal ports, nat_test returns the address
\* of remote1 with class A if the cross-port reply was seen, else class B.
C2_EqualPortsGiveAOrB ==
    (pc = "done" /\ round = 1 /\ ret.st = "ok" /\ ret.remote1.port = ret.remote2.port)
        => result = ResultOk(SomeIp(ret.remote1.ip), IF ret.is_a THEN "A" ELSE "B")

\* remote1 = remote2 = 203.0.113.5:40001 with a cross-port reply gave
\* (Some(203.0.113.5), A).
C2_Witness ==
    /\ pc = "done"
    /\ round = 1
    /\ ret = RetOk(SocketAddrV4(<<203, 0, 113, 5>>, 40001),
                   SocketAddrV4(<<203, 0, 113, 5>>, 40001), TRUE)
    /\ result = ResultOk(SomeIp(<<203, 0, 113, 5>>), "A")

Round2Ok == pc = "done" /\ round = 2 /\ ret.st = "ok"
port_a2 == ret.remote1.port
port_b2 == ret.remote2.port

\* C3: if both ports of round 2 are the ports of round 1 shifted by one
\* constant k modulo 65536, the class is C, also when only one of the two
\* additions wraps past 65535.
C3_UniformShiftGivesC ==
    LET k == (port_a2 + 65536 - port_a1) % 65536
    IN  (Round2Ok /\ port_b2 = (port_b1 + k) % 65536) => result.nat = "C"

\* C4: for portA1 = 65530 and portA2 = 5 the delta is 11, and with a server2
\* delta of 11 the class is C.
C4_WrapDeltaIs11 ==
    (Round2Ok /\ port_a1 = 65530 /\ port_a2 = 5 /\ port_b2 - port_b1 = 11)
        => (PortDelta(port_a1, port_a2) = 11 /\ result.nat = "C")

\* The forward delta as section 4.4 of the specification words it: the
\* difference, and 65535 minus the magnitude of the underflow when the
\* subtraction underflows.
ForwardDelta(first, second) ==
    IF second - first < 0 THEN 65535 - (first - second) ELSE second - first

\* C5: when round 1 completed with differing ports and round 2 completed,
\* nat_test returns class C exactly when the forward deltas of server1 and
\* server2 are equal and class D otherwise, never A, B or F.
C5_DifferingPortsGiveCOrD ==
    Round2Ok =>
        /\ port_a1 # port_b1
        /\ result.st = "ok"
        /\ result.nat = IF ForwardDelta(port_a1, port_a2) = ForwardDelta(port_b1, port_b2)
                        THEN "C" ELSE "D"

\* Round 1 ports 40001/40002 and round 2 ports 40011/40012 gave C.
C5_Witness ==
    /\ Round2Ok
    /\ port_a1 = 40001 /\ port_b1 = 40002
    /\ port_a2 = 40011 /\ port_b2 = 40012
    /\ result.nat = "C"

\* Deltas 10 and 37 gave D.
C5_WitnessD ==
    /\ Round2Ok
    /\ port_a1 = 40001 /\ port_b1 = 40002
    /\ port_a2 = 40011 /\ port_b2 = 40039
    /\ result.nat = "D"

\* C6: an error of send_to, of whatever kind, reaches the caller of nat_test
\* as that error; it is never turned into the F classification.
C6_SendErrorPropagates ==
    (pc = "done" /\ exit.at = "send_err") => result = ResultErr(exit.kind)

\* C7: when recv_from fails, with whatever kind, while remote1 and remote2
\* are both recorded, the round returns Ok((remote1, remote2, false)).
C7_LateErrorEndsRound ==
    (exit.at = "recv_err" /\ BothKnown)
        => ret = RetOk(SocketAddrV4(remote1.ip, remote1.port),
                       SocketAddrV4(remote2.ip, remote2.port), FALSE)

\* A round ended by a non-timeout error of recv_from with both endpoints
\* recorded has returned them.
C7_Witness ==
    /\ pc = "returned"
    /\ exit = [at |-> "recv_err", kind |-> "ConnectionRefused"]
    /\ BothKnown
    /\ ret.st = "ok"
    /\ ~ret.is_a

\* C8: in either round, a non-timeout error of recv_from while remote1 or
\* remote2 is unknown is returned by nat_test as that error, and an error of
\* recv_from leads to class F only if it is TimedOut with remote1 or remote2
\* unknown.
C8_OnlyTimeoutBecomesF ==
    (pc = "done" /\ exit.at = "recv_err") =>
        /\ (~BothKnown /\ exit.kind # "TimedOut") => result = ResultErr(exit.kind)
        /\ result.nat = "F" => (exit.kind = "TimedOut" /\ ~BothKnown)

\* Round 2 failed in the receive loop with a non-timeout error while only
\* remote2 was known, and nat_test returned the error.
C8_Witness ==
    /\ pc = "done"
    /\ round = 2
    /\ exit = [at |-> "recv_err", kind |-> "ConnectionRefused"]
    /\ remote2.some /\ ~remote1.some
    /\ result = ResultErr("ConnectionRefused")

\* C9: when round 1 completed with differing ports and round 2 ends with a
\* TimedOut error while its remote1 and remote2 are not both known, nat_test
\* returns Ok((None, F)): the address observed in round 1 is not returned.
C9_Round2TimeoutIsF ==
    (pc = "done" /\ round = 2 /\ ret.st = "err" /\ ret.kind = "TimedOut" /\ ~BothKnown)
        => result = ResultOk(NoIp, "F")

\* Round 2 timed out in the receive loop after round 1 had observed an
\* address.
C9_Witness ==
    /\ pc = "done"
    /\ round = 2
    /\ exit = [at |-> "recv_err", kind |-> "TimedOut"]
    /\ remote1.some /\ ~remote2.some
    /\ first_remote1.ip \in ObservedIPs
    /\ port_a1 # port_b1
    /\ result = ResultOk(NoIp, "F")

\* C10: an observed IP returned by nat_test is the IP of remote1 of round 1,
\* for every class and whatever addresses round 2 reported.
C10_ObservedIpIsRound1Remote1 ==
    (pc = "done" /\ result.st = "ok" /\ result.ip.some) =>
        /\ result.nat \in {"A", "B", "C", "D"}
        /\ result.ip.ip = (IF round = 1 THEN ret.remote1.ip ELSE first_remote1.ip)

\* Class D was returned with the address of round 1 although both servers
\* reported another address in round 2, and server2 another one in round 1.
C10_Witness ==
    /\ Round2Ok
    /\ result.nat = "D"
    /\ result.ip = SomeIp(first_remote1.ip)
    /\ ret.remote1.ip # first_remote1.ip
    /\ ret.remote2.ip # first_remote1.ip

\* C11: a run follows Start -> Round1 -> {F | A | B | Round2 -> {F | C | D}}:
\* round 2 is started exactly when round 1 completed with differing ports,
\* there are never more than two rounds, round 1 uses the first transport
\* and round 2 the second, and once nat_test has returned no round is run.
C11_TwoRoundStateMachine ==
    [][/\ round' \in {1, 2}
       /\ rw' = (IF round' = 1 THEN "rw1" ELSE "rw2")
       /\ (round' # round) <=>
              (pc = "returned" /\ round = 1 /\ ret.st = "ok"
               /\ ret.remote1.port # ret.remote2.port)
       /\ (round' # round) => (round' = 2 /\ pc' = "send" /\ sent' = 0 /\ ~received')
       /\ (pc' \in {"send", "recv"} /\ pc \notin {"send", "recv"}) => round' # round
       /\ (pc' = "done" /\ round' = 1) =>
              (result'.st = "err" \/ result'.nat \in {"F", "A", "B"})
       /\ (pc' = "done" /\ round' = 2) =>
              (result'.st = "err" \/ result'.nat \in {"F", "C", "D"})
       /\ (pc \in {"done", "reported"}) =>
              (pc' = "reported" /\ result' = result /\ round' = round)]_vars

\* The second round ran on the second transport and ended the run with C.
C11_Witness ==
    /\ pc = "done"
    /\ round = 2
    /\ rw = "rw2"
    /\ port_a1 # port_b1
    /\ result.st = "ok"
    /\ result.nat = "C"

\* C12: the labels printed for a class follow the table A/B/C/D/F,
\* 1/2/3/3/- and Open/Moderate/Strict/Strict/Unavailable, so C and D differ
\* in the Nintendo label only.
C12_LabelTable ==
    (pc = "reported" /\ report.to = "stdout") =>
        <<report.nintendo, report.sony, report.microsoft>> =
            CASE result.nat = "A" -> <<"A", "1", "Open">>
              [] result.nat = "B" -> <<"B", "2", "Moderate">>
              [] result.nat = "C" -> <<"C", "3", "Strict">>
              [] result.nat = "D" -> <<"D", "3", "Strict">>
              [] result.nat = "F" -> <<"F", "-", "Unavailable">>

\* Class D was printed as D, 3 and Strict.
C12_Witness ==
    /\ pc = "reported"
    /\ result.nat = "D"
    /\ report.nintendo = "D"
    /\ report.sony = "3"
    /\ report.microsoft = "Strict"

\* The i-th send_to of a round as section 4.3 lists them.
ExpectedSend(i) ==
    IF i < 5 THEN [buf |-> PAYLOAD_1, addr |-> [ip |-> server1, port |-> 33334]]
    ELSE IF i < 10 THEN [buf |-> PAYLOAD_2, addr |-> [ip |-> server1, port |-> 10025]]
    ELSE IF i < 15 THEN [buf |-> PAYLOAD_3, addr |-> [ip |-> server1, port |-> 10025]]
    ELSE [buf |-> PAYLOAD_4, addr |-> [ip |-> server2, port |-> 10025]]

\* C13: the sends of a round go out in the order 5x send-only, 5x echo
\* request, 5x cross-port request, 5x cross-server request; recv_from is
\* called only after all 20 have succeeded; after a failed send the round
\* makes no other send and no recv_from.
C13_SendsBeforeReceives ==
    [][/\ (pc = "send") => last_send' = ExpectedSend(sent)
       /\ (pc = "send" /\ pc' = "send") => (sent' = sent + 1 /\ sent' < 20)
       /\ (pc = "send" /\ pc' = "recv") => (sent = 19 /\ sent' = 20)
       /\ received' => (sent' = 20 /\ exit'.at # "send_err")
       /\ (exit.at = "send_err") =>
              (pc' \notin {"send", "recv"} /\ ~received' /\ round' = round
               /\ (pc' # "reported" => (sent' = sent /\ last_send' = last_send)))]_vars

\* All 20 sends were made, the last one a cross-server request, and
\* recv_from has been called.
C13_Witness ==
    /\ pc = "recv"
    /\ received
    /\ sent = 20
    /\ last_send = [buf |-> PAYLOAD_4, addr |-> [ip |-> server2, port |-> 10025]]

\* C14: the loop ends with the datagram that makes remote1 known, remote2
\* known and is_a true: in no state is the loop still running with all three,
\* and the round has returned Ok((remote1, remote2, true)).
C14_LoopEndsWhenComplete ==
    (remote1.some /\ remote2.some /\ is_a) =>
        /\ pc \in {"returned", "done"}
        /\ exit.at = "break"
        /\ ret = RetOk(SocketAddrV4(remote1.ip, remote1.port),
                       SocketAddrV4(remote2.ip, remote2.port), TRUE)

\* Round 1 was ended by the break of the Ok arm and returned true.
C14_Witness ==
    /\ pc = "returned"
    /\ round = 1
    /\ exit.at = "break"
    /\ remote1.some /\ remote2.some /\ is_a
    /\ ret.st = "ok"
    /\ ret.is_a

\* A datagram the round ignores: not 16 bytes long, or not from one of the
\* three sources, or with a discriminator that is not the one of its source.
Ignored(d) ==
    \/ d.size # 16
    \/ d.addr \notin {addr_1_2, addr_1_3, addr_2}
    \/ ~(\/ d.addr = addr_1_2 /\ d.buf[4] = 101
         \/ d.addr = addr_1_3 /\ d.buf[4] = 102
         \/ d.addr = addr_2 /\ d.buf[4] = 103)

\* C15: in every state of the receive loop, receiving an ignored datagram
\* leaves remote1, remote2 and is_a as they are and does not end the loop.
C15_IgnoredDatagramsChangeNothing ==
    (pc = "recv") =>
        \A d \in Datagrams :
            Ignored(d) =>
                /\ NewRemote1(d, remote1) = remote1
                /\ NewRemote2(d, remote2) = remote2
                /\ NewIsA(d, is_a) = is_a
                /\ ~BreakOnDatagram(d, remote1, remote2, is_a)

\* recv_from has delivered datagrams and the loop is still running with
\* nothing recorded.
C15_Witness ==
    /\ pc = "recv"
    /\ received
    /\ ~remote1.some /\ ~remote2.some /\ ~is_a
    /\ ~last_echo.some /\ ~last_xsrv.some

\* C16: a 16-byte datagram from server2:10025 with discriminator 0x67 sets
\* remote2 to the endpoint it carries, whatever server1 and server2 are.
C16_CrossServerReplySetsRemote2 ==
    (pc \in {"recv", "returned", "done"} /\ last_xsrv.some) => remote2 = last_xsrv

\* C17: once the echo reply, the cross-port reply and the cross-server reply
\* have been delivered, in whatever order and among whatever other
\* datagrams, the round has returned the two endpoints they carried and true.
C17_AnyOrderSameResult ==
    (last_echo.some /\ last_xsrv.some /\ is_a) =>
        /\ pc \in {"returned", "done"}
        /\ ret = RetOk(SocketAddrV4(last_echo.ip, last_echo.port),
                       SocketAddrV4(last_xsrv.ip, last_xsrv.port), TRUE)

\* C18: the endpoints a round returns are those of the latest echo reply
\* and of the latest cross-server reply it processed.
C18_LastWriteWins ==
    (pc \in {"returned", "done"} /\ ret.st = "ok") =>
        /\ Some(ret.remote1) = last_echo
        /\ Some(ret.remote2) = last_xsrv

\* A round in which a later reply carried another endpoint than an earlier
\* one has returned.
C18_Witness ==
    /\ pc = "returned"
    /\ ret.st = "ok"
    /\ overwrote
    /\ Some(ret.remote1) = last_echo

\* C19: the loop is left by break only with remote1 and remote2 recorded, so
\* unwrap never panics; a round that ends otherwise returns the transport
\* error.
C19_BreakOnlyWhenBothKnown ==
    /\ ret.st # "panic"
    /\ result.st # "panic"
    /\ (exit.at = "break" \/ (exit.at = "recv_err" /\ ret.st = "ok")) =>
           (BothKnown /\ ret = RetOk(SocketAddrV4(remote1.ip, remote1.port),
                                     SocketAddrV4(remote2.ip, remote2.port), is_a))
    /\ (exit.at = "send_err" \/ (exit.at = "recv_err" /\ ~BothKnown)) =>
           ret = RetErr(exit.kind)

\* A timeout ended a round by break with both endpoints recorded.
C19_Witness ==
    /\ pc = "returned"
    /\ exit = [at |-> "recv_err", kind |-> "TimedOut"]
    /\ BothKnown
    /\ ret.st = "ok"

\* C20: both deltas lie in 0..65535, and the fallback is evaluated only
\* when the second port is below the first, where its subtraction does not
\* underflow.
C20_DeltaStaysInU16 ==
    Round2Ok =>
        \A pair \in {<<port_a1, port_a2>>, <<port_b1, port_b2>>} :
            /\ PortDelta(pair[1], pair[2]) \in 0..65535
            /\ ~checked_sub(pair[2], pair[1]).some =>
                   (pair[2] < pair[1] /\ pair[1] - pair[2] \in 0..65535)
            /\ checked_sub(pair[2], pair[1]).some =>
                   PortDelta(pair[1], pair[2]) = pair[2] - pair[1]

\* The fallback was evaluated for server1: round 1 saw 65530, round 2 saw 5.
C20_Witness ==
    /\ Round2Ok
    /\ port_a1 = 65530
    /\ port_a2 = 5
    /\ port_b2 >= port_b1

\* A call of test is running; it has returned a result or an error.
InRound == pc \in {"send", "recv"}
RoundOver == pc = "returned" /\ ret.st \in {"ok", "err"}

\* C21: on a transport whose recv_from returns an error at some call, every
\* round that was started returns, with Ok or with Err; and in every state
\* of the receive loop an ignored datagram leaves the loop running, so no
\* number of datagrams bounds the round before that error.
C21_RoundTerminates ==
    /\ InRound ~> RoundOver
    /\ [](pc = "recv" =>
            \A d \in Datagrams :
                Ignored(d) =>
                    ~BreakOnDatagram(d, NewRemote1(d, remote1),
                                     NewRemote2(d, remote2), NewIsA(d, is_a)))

\* Round 2 processed several datagrams (an endpoint was recorded and then
\* replaced) and was ended by an error of recv_from, which test returned.
C21_Witness ==
    /\ round = 2
    /\ pc = "returned"
    /\ exit.at = "recv_err"
    /\ overwrote
    /\ ret.st = "err"

====
